---- MODULE Spec2Model ----
(***************************************************************************)
(* Model of the VK Cloud interface manager (vk_cloud_interface_manager.py) *)
(* and of the orphan reconciler (cleanup_ports.py).                        *)
(*                                                                         *)
(* The manager is a single sequential process: main() runs up to           *)
(* MAX_RETRIES iterations, each of which creates NUM_PORTS ports, attaches *)
(* them to the VM, polls them for an address and either keeps the first    *)
(* port whose address lies in an allowed range or tears all of them down.  *)
(* The only concurrency is the SIGINT handler, which sets the flag         *)
(* shutdown_requested between any two steps of the process.                *)
(*                                                                         *)
(* The remote system is the variable cloud (the ports that exist, with     *)
(* their device and addresses); every remote call may fail, up to          *)
(* MaxFailures failures in one run.                                        *)
(*                                                                         *)
(* The reconciler is a separate program, run by the operator: it has its   *)
(* own specification, SpecCleanup, over the same cloud.                    *)
(***************************************************************************)
EXTENDS Integers, Sequences, FiniteSets, TLC

(***************************************************************************)
(* Configuration                                                           *)
(***************************************************************************)
NUM_PORTS == 2
MAX_RETRIES == 2
IP_WAIT_TIMEOUT == 2
CHECK_INTERVAL == 1
WaitSeconds == 10
\* At most this many remote calls of one run fail.
MaxFailures == 1
\* The longest a get_port_info call lasts, in seconds.
MaxCallTime == 2
\* The reconciler is run at most this many times in a row.
MaxRuns == 2
\* At most this many ports exist when the reconciler starts.
MaxListed == 2

IP_RANGE_1_START == <<95, 163, 248, 10>>
IP_RANGE_1_END == <<95, 163, 251, 250>>
IP_RANGE_2_START == <<217, 16, 24, 1>>
IP_RANGE_2_END == <<217, 16, 27, 253>>

\* The protected address of cleanup_ports.py (no default in the source).
SAFE_IP == <<95, 163, 248, 9>>
\* The target instance, and some other device of the project.
VM_ID == "vm"
OtherDevice == "other"
NoDevice == ""

\* An address that is in neither range and is not protected.
OutAddr == <<217, 16, 27, 254>>
\* The addresses the network may assign to a port: one inside an allowed
\* range, one outside, and the protected one (outside as well).
Addrs == {IP_RANGE_2_END, OutAddr, SAFE_IP}

\* No address (an empty fixed_ips, or no (True, ip) result).
NoAddr == <<>>
None == "None"

VARIABLES
    pc,                 \* position of the manager process
    cfg,                \* which required settings hold a value once loaded
    iteration,          \* main: iteration
    created_ports,      \* global created_ports
    ports_to_check,     \* run_iteration: ports_to_check
    shutdown_requested, \* global shutdown_requested
    idx,                \* index of the for loop being executed
    elapsed,            \* time.time() - start_time as line 325 reads it, 0 outside the loop
    port_id,            \* run_iteration: port_id of the poll loop at a match, 0 before
    found_ip,           \* run_iteration's result (NoAddr: (False, None))
    after,              \* what follows cleanup_all_ports: "return" or "raise"
    exitCode,           \* the process exit code, -1 while running, Killed on a SIGINT death
    cloud,              \* the remote system: port id -> [device_id, ips]
    nextId,             \* the next id the remote system hands out
    createCalls,        \* number of createInterface calls issued
    detachCalled,       \* ids a detach call was issued on
    deleteCalled,       \* ids a delete call was issued on
    protectedHit,       \* a detach/delete was issued on a port carrying SAFE_IP
    failures,           \* number of remote calls that failed so far
    attachFailed,       \* ids whose attach call failed
    matched,            \* ids whose address was classified as a match
    stopObserved,       \* a match was classified or a check read the flag as true
    sent,               \* messages handed to the notifier
    rpc,                \* position of the reconciler (cleanup_ports.py)
    all_ports,          \* cleanup: all_ports, the listing
    ridx,               \* cleanup: index of the for loop over all_ports
    deleted_count,      \* cleanup: deleted_count
    runs,               \* number of runs of the reconciler started
    lastCall,           \* the last remote call: its answer and what the client reported
    deleteCallsRun,     \* delete calls the reconciler issued in the current run
    curFailed,          \* the listing or a delete of the current run failed
    prevFailed,         \* the listing or a delete of the run before failed
    cls                 \* one run of the address classifier: inputs and results

\* The variables the manager leaves alone: those of the reconciler and of
\* the classifier run.
rvars == <<rpc, all_ports, ridx, deleted_count, runs, deleteCallsRun, curFailed,
           prevFailed, cls>>

vars == <<rpc, all_ports, ridx, deleted_count, runs, deleteCallsRun, curFailed,
          prevFailed, cls, lastCall,
          pc, cfg, iteration, created_ports, ports_to_check, shutdown_requested,
          idx, elapsed, port_id, found_ip, after, exitCode, cloud, nextId,
          createCalls, detachCalled, deleteCalled, protectedHit, failures,
          attachFailed, matched, stopObserved, sent>>

(***************************************************************************)
(* Pure functions                                                          *)
(***************************************************************************)
\* The number (p0 << 24) + (p1 << 16) + (p2 << 8) + p3, held as two limbs
\* <<high, low>> of 16 bits each (the number is high * 65536 + low), since
\* the model checker's integers have 32 bits, sign included.
ip_to_int(ip) ==
    LET low == ip[3] * 256 + ip[4]
        high == ip[1] * 256 + ip[2] + (low \div 65536)
    IN <<high, low % 65536>>

\* a <= b on numbers held as two limbs.
IntLeq(a, b) == a[1] < b[1] \/ (a[1] = b[1] /\ a[2] <= b[2])

\* Faulty variant of line 222: the end of the range is left out.
check_ip_in_range_open(ip, range_start, range_end) ==
    IF Len(ip) < 4 \/ Len(range_start) < 4 \/ Len(range_end) < 4
    THEN FALSE
    ELSE /\ IntLeq(ip_to_int(range_start), ip_to_int(ip))
         /\ ip_to_int(ip) # ip_to_int(range_end)
         /\ IntLeq(ip_to_int(ip), ip_to_int(range_end))
check_ip_in_range(ip, range_start, range_end) ==
    IF Len(ip) < 4 \/ Len(range_start) < 4 \/ Len(range_end) < 4
    THEN FALSE
    ELSE /\ IntLeq(ip_to_int(range_start), ip_to_int(ip))
         /\ IntLeq(ip_to_int(ip), ip_to_int(range_end))

is_ip_in_allowed_ranges(ip) ==
    \/ check_ip_in_range(ip, IP_RANGE_1_START, IP_RANGE_1_END)
    \/ check_ip_in_range(ip, IP_RANGE_2_START, IP_RANGE_2_END)

\* First assigned address of a port, NoAddr when it has none.
extract_ip(port_info) ==
    IF Len(port_info.ips) > 0 THEN port_info.ips[1] ELSE NoAddr

Required == {"VK_CLOUD_AUTH_TOKEN", "VK_CLOUD_PROJECT_ID", "VM_ID", "EXTERNAL_NETWORK_ID"}

\* validate_config, lines 70-90: every required setting is set.
validate_config(c) == \A k \in Required : c[k]

\* list.remove(x): drops the first occurrence of x.
RECURSIVE Remove(_, _)
Remove(s, x) ==
    IF s = <<>> THEN <<>>
    ELSE IF Head(s) = x THEN Tail(s)
    ELSE <<Head(s)>> \o Remove(Tail(s), x)

Range(s) == {s[k] : k \in 1..Len(s)}

Carries(p, a) == p \in DOMAIN cloud /\ a \in Range(cloud[p].ips)

\* Faulty variant of line 350: the port stays in the list.
UntrackedKept(ports, id) == ports
\* run_iteration line 350: the deleted port is taken out of created_ports.
Untracked(ports, id) == Remove(ports, id)

(***************************************************************************)
(* The remote system                                                       *)
(***************************************************************************)
\* createInterface succeeded: a new port, unattached, with the addresses the
\* network has assigned to it so far (none, or one).
CloudCreate(c, id, ips) ==
    [p \in DOMAIN c \cup {id} |->
        IF p = id THEN [device_id |-> NoDevice, ips |-> ips] ELSE c[p]]

CloudAttach(c, id) ==
    [p \in DOMAIN c |-> IF p = id THEN [c[p] EXCEPT !.device_id = VM_ID] ELSE c[p]]

CloudDetach(c, id) ==
    [p \in DOMAIN c |->
        IF p = id /\ c[p].device_id = VM_ID
        THEN [c[p] EXCEPT !.device_id = NoDevice] ELSE c[p]]

CloudDelete(c, id) == [p \in DOMAIN c \ {id} |-> c[p]]

\* The network assigns an address to a port that has none.
CloudAssign(c, id, a) ==
    [p \in DOMAIN c |-> IF p = id THEN [c[p] EXCEPT !.ips = <<a>>] ELSE c[p]]

\* The answers to a detach request: a success on a port attached to the VM,
\* "not found" on any other port, and in either case an error.
DetachAnswers(c, id) ==
    IF id \in DOMAIN c /\ c[id].device_id = VM_ID
    THEN {"ok", "error"} ELSE {"not_found", "error"}

\* The answers to a delete request: a success on a port that exists, "not
\* found" on one that does not, and in either case an error.
DeleteAnswers(c, id) ==
    IF id \in DOMAIN c THEN {"ok", "error"} ELSE {"not_found", "error"}

\* get_port_info, lines 164-175: the time one call takes, in seconds.  The
\* code bounds an attempt by its timeout (line 168) and the session repeats
\* attempts (lines 95-104); the model draws the time from 0..MaxCallTime.
CallTimes == 0..MaxCallTime

\* The time the n calls of one round of polling take together.
RECURSIVE RoundTimes(_)
RoundTimes(n) ==
    IF n = 0 THEN {0} ELSE {t + d : t \in RoundTimes(n - 1), d \in CallTimes}

\* No remote call was made yet.
NoCall == [op |-> "none", answer |-> "none", result |-> FALSE]

\* The classifier was not run.
NoClassify == [at |-> "off"]

(***************************************************************************)
(* Decisions of the manager, as operators                                  *)
(***************************************************************************)
\* Faulty variants of the test of line 346: one removes the matching port as
\* well, one stops at the matching port and leaves the ports after it.
IsOtherPortAll(other_port_id, winner) == TRUE
IsOtherPortBefore(other_port_id, winner) == other_port_id < winner
\* run_iteration line 346: the ports removed after a match.
IsOtherPort(other_port_id, winner) == other_port_id # winner

\* Faulty variant of line 283: the list is not cleared.
ClearedPortsKept(ports) == ports
\* cleanup_all_ports line 283: created_ports.clear().
ClearedPorts(ports) == <<>>

\* Faulty variant of lines 361-364: the exception is raised again at once.
InterruptTargetNoCleanup == "interrupted"
\* run_iteration lines 361-364: KeyboardInterrupt runs cleanup_all_ports
\* before it is raised again.
InterruptTarget == "cleanup_detach"

\* Faulty variant of lines 357-359: the return without cleanup_all_ports.
DeadlineTargetNoCleanup == "after_iter"
\* run_iteration lines 357-359: past the poll deadline, cleanup_all_ports runs
\* before the return.
DeadlineTarget == "cleanup_detach"

\* Faulty variant of lines 397-398: the flag is not read.
LoopCheckNever(flag) == FALSE
\* main lines 397-398: the while loop reads the flag before each iteration.
LoopCheck(flag) == flag

\* Faulty variant of lines 279-281: the delete is left out when the detach
\* did not succeed.
AfterDetachSkip(result) == IF result THEN "cleanup_delete" ELSE "cleanup_detach"
\* cleanup_all_ports lines 279-281: the result of detach_port_from_vm is not
\* used; the delete follows.
AfterDetach(result) == "cleanup_delete"

\* run_iteration lines 331-332: get_port_info returned None: continue with
\* the next port of the round.
AfterFailedGet(i, n) == i + 1

\* Faulty variant of line 396: one iteration more.
MoreIterationsOneMore(i) == i <= MAX_RETRIES
\* main line 396: while iteration < MAX_RETRIES.
MoreIterations(i) == i < MAX_RETRIES

\* __main__ lines 427-429: exit code on KeyboardInterrupt.
InterruptExitCode == 0

\* detach_port_from_vm lines 183-190 and delete_port lines 198-205:
\* raise_for_status raises on every answer that is not a success, the handler
\* logs it and the function returns False; it returns True otherwise.
ManagerReports(answer) == answer = "ok"

\* detach_and_delete lines 49-56: the status of the answer is not read; the
\* function returns True unless the request raised.
CleanupReports(answer) == answer # "exception"

\* detach_and_delete lines 43-49: whatever the detach request did (an
\* exception is passed over), the delete request follows.
AfterDetachCall(answer) == "delete"

\* Faulty variant of lines 82-91: a delete that did not succeed ends the pass.
AfterDeleteCallAbort(answer) == IF answer = "ok" THEN "scan" ELSE "done"
\* cleanup lines 82-91: whatever detach_and_delete returned, the loop over
\* all_ports goes on.
AfterDeleteCall(answer) == "scan"

(***************************************************************************)
(* Initial state                                                           *)
(***************************************************************************)
Init ==
    /\ pc = "load"
    /\ cfg \in [Required -> BOOLEAN]
    /\ iteration = 0
    /\ created_ports = <<>>
    /\ ports_to_check = <<>>
    /\ shutdown_requested = FALSE
    /\ idx = 0
    /\ elapsed = 0
    /\ port_id = 0
    /\ found_ip = NoAddr
    /\ after = None
    /\ exitCode = -1
    /\ cloud = [p \in {} |-> [device_id |-> NoDevice, ips |-> <<>>]]
    /\ nextId = 1
    /\ createCalls = 0
    /\ detachCalled = {}
    /\ deleteCalled = {}
    /\ protectedHit = FALSE
    /\ failures = 0
    /\ attachFailed = {}
    /\ matched = {}
    /\ stopObserved = FALSE
    /\ sent = {}
    /\ rpc = "off"
    /\ all_ports = <<>>
    /\ ridx = 0
    /\ deleted_count = 0
    /\ runs = 0
    /\ lastCall = NoCall
    /\ deleteCallsRun = 0
    /\ curFailed = FALSE
    /\ prevFailed = FALSE
    /\ cls = NoClassify

history == <<createCalls, detachCalled, deleteCalled, protectedHit, failures,
             attachFailed, matched, stopObserved, sent>>


(***************************************************************************)
(* Steps shared by several handlers                                        *)
(***************************************************************************)
\* A check read shutdown_requested as true: raise KeyboardInterrupt, which
\* the handler of run_iteration (lines 361-364) answers with cleanup_all_ports.
RaiseInterrupt ==
    /\ pc' = InterruptTarget
    /\ after' = "raise"
    /\ idx' = 1
    /\ stopObserved' = TRUE

\* The answer of the remote system to one call: a success, or one more failure.
Answer(ok) ==
    /\ ok \/ failures < MaxFailures
    /\ failures' = failures + (IF ok THEN 0 ELSE 1)

\* The return code of a process that died of an uncaught KeyboardInterrupt.
Killed == -2

\* The process ends with the given code.
Exit(code) ==
    /\ pc' = "exit"
    /\ exitCode' = code

\* detach_port_from_vm(session, p), lines 178-190: the call is issued, the
\* remote system answers, and the function returns ManagerReports(answer).
DetachCall(p) ==
    /\ detachCalled' = detachCalled \cup {p}
    /\ protectedHit' = (protectedHit \/ Carries(p, SAFE_IP))
    /\ \E answer \in DetachAnswers(cloud, p) :
        /\ Answer(answer # "error")
        /\ cloud' = IF answer = "ok" THEN CloudDetach(cloud, p) ELSE cloud
        /\ lastCall' = [op |-> "detach", answer |-> answer,
                        result |-> ManagerReports(answer)]

\* delete_port(session, p), lines 193-205: the call is issued, the remote
\* system answers, and the function returns ManagerReports(answer).
DeleteCall(p) ==
    /\ deleteCalled' = deleteCalled \cup {p}
    /\ protectedHit' = (protectedHit \/ Carries(p, SAFE_IP))
    /\ \E answer \in DeleteAnswers(cloud, p) :
        /\ Answer(answer # "error")
        /\ cloud' = IF answer = "ok" THEN CloudDelete(cloud, p) ELSE cloud
        /\ lastCall' = [op |-> "delete", answer |-> answer,
                        result |-> ManagerReports(answer)]

(***************************************************************************)
(* signal_handler, lines 375-380                                           *)
(***************************************************************************)
\* The handler runs on a SIGINT once line 385 has installed it.
signal_handler ==
    /\ pc \notin {"load", "main", "interrupted_early", "exit", "off"}
    /\ shutdown_requested' = TRUE
    /\ UNCHANGED <<pc, cfg, iteration, created_ports, ports_to_check, idx, elapsed,
                   port_id, found_ip, after, exitCode, cloud, nextId, history>>
    /\ UNCHANGED <<rvars, lastCall>>

(***************************************************************************)
(* main, lines 383-421                                                     *)
(***************************************************************************)
\* lines 66-426 and 383: the rest of the module is loaded, the try block of
\* line 425 is entered and main is called.
EnterMain ==
    /\ pc = "load"
    /\ pc' = "main"
    /\ UNCHANGED <<cfg, iteration, created_ports, ports_to_check, shutdown_requested,
                   idx, elapsed, port_id, found_ip, after, exitCode, cloud, nextId,
                   history>>
    /\ UNCHANGED <<rvars, lastCall>>

\* line 385: main installs signal_handler.
InstallHandler ==
    /\ pc = "main"
    /\ pc' = "validate"
    /\ UNCHANGED <<cfg, iteration, created_ports, ports_to_check, shutdown_requested,
                   idx, elapsed, port_id, found_ip, after, exitCode, cloud, nextId,
                   history>>
    /\ UNCHANGED <<rvars, lastCall>>

\* A SIGINT while line 385 has not run: the default handler of the
\* interpreter raises KeyboardInterrupt.  Inside the try block of line 425
\* (pc = "main") lines 427-429 catch it; before the try block, and inside the
\* except block of lines 427-429 itself, nothing catches it and the process
\* dies of the signal.
DefaultInterrupt ==
    /\ pc \in {"load", "main", "interrupted_early"}
    /\ IF pc = "main"
       THEN pc' = "interrupted_early" /\ UNCHANGED exitCode
       ELSE Exit(Killed)
    /\ UNCHANGED <<cfg, iteration, created_ports, ports_to_check, shutdown_requested,
                   idx, elapsed, port_id, found_ip, after, cloud, nextId, history>>
    /\ UNCHANGED <<rvars, lastCall>>

\* lines 387-392: validate the configuration.
MainStart ==
    /\ pc = "validate"
    /\ IF validate_config(cfg)
       THEN pc' = "loop" /\ UNCHANGED exitCode
       ELSE Exit(1)
    /\ UNCHANGED <<cfg, iteration, created_ports, ports_to_check, shutdown_requested,
                   idx, elapsed, port_id, found_ip, after, cloud, nextId, history>>
    /\ UNCHANGED <<rvars, lastCall>>

\* lines 396-401: the head of the while loop and the call of run_iteration
\* (lines 292-293: a fresh ports_to_check).
LoopHead ==
    /\ pc = "loop"
    /\ IF MoreIterations(iteration)
       THEN IF LoopCheck(shutdown_requested)
            THEN /\ pc' = "fail"
                 /\ stopObserved' = TRUE
                 /\ UNCHANGED <<iteration, ports_to_check, idx, found_ip>>
            ELSE /\ pc' = "create"
                 /\ iteration' = iteration + 1
                 /\ ports_to_check' = <<>>
                 /\ idx' = 0
                 /\ found_ip' = NoAddr
                 /\ UNCHANGED stopObserved
       ELSE /\ pc' = "fail"
            /\ UNCHANGED <<iteration, ports_to_check, idx, found_ip, stopObserved>>
    /\ UNCHANGED <<cfg, created_ports, shutdown_requested, elapsed, port_id, after,
                   exitCode, cloud, nextId, createCalls, detachCalled, deleteCalled,
                   protectedHit, failures, attachFailed, matched, sent>>
    /\ UNCHANGED <<rvars, lastCall>>

\* lines 403-417: after run_iteration returned; its locals are gone.
AfterIteration ==
    /\ pc = "after_iter"
    /\ IF found_ip # NoAddr
       THEN /\ sent' = sent \cup {"done"}
            /\ Exit(0)
            /\ UNCHANGED stopObserved
       ELSE IF shutdown_requested
       THEN /\ pc' = "fail"
            /\ stopObserved' = TRUE
            /\ UNCHANGED <<sent, exitCode>>
       ELSE IF iteration < MAX_RETRIES
       THEN /\ pc' = "wait"
            /\ UNCHANGED <<sent, exitCode, stopObserved>>
       ELSE /\ pc' = "loop"
            /\ UNCHANGED <<sent, exitCode, stopObserved>>
    /\ ports_to_check' = <<>>
    /\ idx' = 0
    /\ elapsed' = 0
    /\ after' = None
    /\ UNCHANGED <<cfg, iteration, created_ports, shutdown_requested, port_id,
                   found_ip, cloud, nextId, createCalls, detachCalled, deleteCalled,
                   protectedHit, failures, attachFailed, matched>>
    /\ UNCHANGED <<rvars, lastCall>>

\* lines 414-417: the wait between two iterations, one second per step.
Wait ==
    /\ pc = "wait"
    /\ IF idx < WaitSeconds
       THEN IF shutdown_requested
            THEN /\ pc' = "loop"
                 /\ stopObserved' = TRUE
                 /\ UNCHANGED idx
            ELSE /\ idx' = idx + 1
                 /\ UNCHANGED <<pc, stopObserved>>
       ELSE /\ pc' = "loop"
            /\ UNCHANGED <<idx, stopObserved>>
    /\ UNCHANGED <<cfg, iteration, created_ports, ports_to_check, shutdown_requested,
                   elapsed, port_id, found_ip, after, exitCode, cloud, nextId,
                   createCalls, detachCalled, deleteCalled, protectedHit, failures,
                   attachFailed, matched, sent>>
    /\ UNCHANGED <<rvars, lastCall>>

\* lines 419-421: no address found.
Fail ==
    /\ pc = "fail"
    /\ sent' = sent \cup {"exhausted"}
    /\ Exit(1)
    /\ UNCHANGED <<cfg, iteration, created_ports, ports_to_check, shutdown_requested,
                   idx, elapsed, port_id, found_ip, after, cloud, nextId, createCalls,
                   detachCalled, deleteCalled, protectedHit, failures, attachFailed,
                   matched, stopObserved>>
    /\ UNCHANGED <<rvars, lastCall>>

\* lines 424-429: the KeyboardInterrupt raised by run_iteration, or by the
\* default handler inside main, leaves main.
Interrupted ==
    /\ pc \in {"interrupted", "interrupted_early"}
    /\ Exit(InterruptExitCode)
    /\ UNCHANGED <<cfg, iteration, created_ports, ports_to_check, shutdown_requested,
                   idx, elapsed, port_id, found_ip, after, cloud, nextId, history>>
    /\ UNCHANGED <<rvars, lastCall>>

(***************************************************************************)
(* run_iteration, lines 286-372                                            *)
(***************************************************************************)
\* lines 298-310: one round of the creation loop, or its end.  The remote
\* system answers a create with a port ("ok"), with a failure ("fail"), or
\* with a port object that has no id ("noid": port_info['id'] raises, and the
\* handler of lines 366-369 runs cleanup_all_ports and returns (False, None)).
Create ==
    /\ pc = "create"
    /\ IF idx < NUM_PORTS
       THEN IF shutdown_requested
            THEN /\ RaiseInterrupt
                 /\ UNCHANGED <<ports_to_check, created_ports, cloud, nextId,
                                createCalls, found_ip, failures, lastCall>>
            ELSE /\ createCalls' = createCalls + 1
                 /\ UNCHANGED stopObserved
                 /\ \E outcome \in {"ok", "fail", "noid"} :
                      /\ Answer(outcome = "ok")
                      /\ lastCall' = [op |-> "create",
                                      answer |-> CASE outcome = "ok" -> "ok"
                                                   [] outcome = "fail" -> "error"
                                                   [] outcome = "noid" -> "malformed",
                                      result |-> outcome # "fail"]
                      /\ CASE outcome = "ok" ->
                             /\ \E a \in Addrs \cup {NoAddr} :
                                  cloud' = CloudCreate(cloud, nextId,
                                              IF a = NoAddr THEN <<>> ELSE <<a>>)
                             /\ nextId' = nextId + 1
                             /\ ports_to_check' = Append(ports_to_check, nextId)
                             /\ created_ports' = Append(created_ports, nextId)
                             /\ idx' = idx + 1
                             /\ UNCHANGED <<pc, after, found_ip>>
                        [] outcome = "fail" ->
                             /\ idx' = idx + 1
                             /\ UNCHANGED <<pc, after, found_ip, cloud, nextId,
                                            ports_to_check, created_ports>>
                        [] outcome = "noid" ->
                             /\ pc' = "cleanup_detach"
                             /\ after' = "return"
                             /\ idx' = 1
                             /\ UNCHANGED <<found_ip, cloud, nextId, ports_to_check,
                                            created_ports>>
       ELSE /\ IF ports_to_check = <<>>
               THEN pc' = "after_iter" /\ found_ip' = NoAddr /\ UNCHANGED idx
               ELSE pc' = "attach" /\ idx' = 1 /\ UNCHANGED found_ip
            /\ UNCHANGED <<after, ports_to_check, created_ports, cloud, nextId,
                           createCalls, stopObserved, failures, lastCall>>
    /\ UNCHANGED <<cfg, iteration, shutdown_requested, elapsed, port_id, exitCode,
                   detachCalled, deleteCalled, protectedHit, attachFailed, matched,
                   sent>>
    /\ UNCHANGED rvars

\* lines 314-323: one round of the attach loop, or its end (start_time is taken).
\* The result of attach_port_to_vm is not used.
Attach ==
    /\ pc = "attach"
    /\ IF idx <= Len(ports_to_check)
       THEN IF shutdown_requested
            THEN /\ RaiseInterrupt
                 /\ UNCHANGED <<cloud, attachFailed, elapsed, failures, lastCall>>
            ELSE /\ \E ok \in BOOLEAN :
                      /\ Answer(ok)
                      /\ lastCall' = [op |-> "attach",
                                      answer |-> IF ok THEN "ok" ELSE "error",
                                      result |-> ok]
                      /\ IF ok /\ ports_to_check[idx] \in DOMAIN cloud
                         THEN /\ cloud' = CloudAttach(cloud, ports_to_check[idx])
                              /\ UNCHANGED attachFailed
                         ELSE /\ attachFailed' = attachFailed \cup {ports_to_check[idx]}
                              /\ UNCHANGED cloud
                 /\ idx' = idx + 1
                 /\ UNCHANGED <<pc, after, stopObserved, elapsed>>
       ELSE /\ pc' = "poll_head"
            /\ elapsed' = 0
            /\ UNCHANGED <<idx, after, stopObserved, cloud, attachFailed, failures,
                           lastCall>>
    /\ UNCHANGED <<cfg, iteration, created_ports, ports_to_check, shutdown_requested,
                   port_id, found_ip, exitCode, nextId, createCalls, detachCalled,
                   deleteCalled, protectedHit, matched, sent>>
    /\ UNCHANGED rvars

\* lines 325-327 and 357-359: the head of the poll loop; past the deadline,
\* cleanup_all_ports and return (False, None).  The clock is not read again
\* once the loop is left.
PollHead ==
    /\ pc = "poll_head"
    /\ IF elapsed < IP_WAIT_TIMEOUT
       THEN IF shutdown_requested
            THEN RaiseInterrupt
            ELSE pc' = "poll" /\ idx' = 1 /\ UNCHANGED <<after, stopObserved>>
       ELSE /\ pc' = DeadlineTarget
            /\ after' = "return"
            /\ idx' = 1
            /\ UNCHANGED stopObserved
    /\ elapsed' = IF pc' = "poll" THEN elapsed ELSE 0
    /\ UNCHANGED <<cfg, iteration, created_ports, ports_to_check, shutdown_requested,
                   port_id, found_ip, exitCode, cloud, nextId, createCalls,
                   detachCalled, deleteCalled, protectedHit, failures, attachFailed,
                   matched, sent>>
    /\ UNCHANGED <<rvars, lastCall>>

\* lines 329-354: get_port_info on one port and the classification of its
\* address, or the sleep that ends a round.  A port without an address may be
\* given one by the network before the answer.  The clock is read at line 325
\* only: elapsed is the value it read at the head of this round, and the next
\* value includes the time the calls of this round took and the sleep.
Poll ==
    /\ pc = "poll"
    /\ IF idx <= Len(ports_to_check)
       THEN LET p == ports_to_check[idx] IN
            \E ok \in BOOLEAN, a \in Addrs \cup {NoAddr} :
              /\ Answer(ok)
              /\ lastCall' = [op |-> "get", answer |-> IF ok THEN "ok" ELSE "error",
                              result |-> ok]
              /\ (a # NoAddr) => (ok /\ p \in DOMAIN cloud /\ cloud[p].ips = <<>>)
              /\ cloud' = IF a # NoAddr THEN CloudAssign(cloud, p, a) ELSE cloud
              /\ LET ip == IF ok /\ p \in DOMAIN cloud
                           THEN extract_ip(cloud'[p]) ELSE NoAddr IN
                 IF ip # NoAddr /\ is_ip_in_allowed_ranges(ip)
                 THEN /\ matched' = matched \cup {p}
                      /\ sent' = sent \cup {"found"}
                      /\ stopObserved' = TRUE
                      /\ port_id' = p
                      /\ found_ip' = ip
                      /\ pc' = "losers"
                      /\ idx' = 1
                      /\ elapsed' = 0
                 ELSE /\ UNCHANGED elapsed
                      /\ idx' = IF ok THEN idx + 1
                                      ELSE AfterFailedGet(idx, Len(ports_to_check))
                      /\ UNCHANGED <<pc, matched, sent, stopObserved, port_id, found_ip>>
       ELSE /\ \E d \in RoundTimes(Len(ports_to_check)) :
                 elapsed' = elapsed + d + CHECK_INTERVAL
            /\ pc' = "poll_head"
            /\ UNCHANGED <<idx, cloud, matched, sent, stopObserved, port_id, found_ip,
                           failures, lastCall>>
    /\ UNCHANGED <<cfg, iteration, created_ports, ports_to_check, shutdown_requested,
                   after, exitCode, nextId, createCalls, detachCalled, deleteCalled,
                   protectedHit, attachFailed>>
    /\ UNCHANGED rvars

\* lines 345-347 and 352: the loop over the other ports: detach one of them,
\* skip the matching port, or return (True, ip) at the end.
Losers ==
    /\ pc = "losers"
    /\ IF idx <= Len(ports_to_check)
       THEN IF IsOtherPort(ports_to_check[idx], port_id)
            THEN /\ DetachCall(ports_to_check[idx])
                 /\ pc' = "losers_delete"
                 /\ UNCHANGED idx
            ELSE /\ idx' = idx + 1
                 /\ UNCHANGED <<pc, cloud, detachCalled, protectedHit, failures,
                                lastCall>>
       ELSE /\ pc' = "after_iter"
            /\ UNCHANGED <<idx, cloud, detachCalled, protectedHit, failures, lastCall>>
    /\ UNCHANGED <<cfg, iteration, created_ports, ports_to_check, shutdown_requested,
                   elapsed, port_id, found_ip, after, exitCode, nextId, createCalls,
                   deleteCalled, attachFailed, matched, stopObserved, sent>>
    /\ UNCHANGED rvars

\* lines 349-350: delete the port just detached and stop tracking it.
LosersDelete ==
    /\ pc = "losers_delete"
    /\ DeleteCall(ports_to_check[idx])
    /\ created_ports' = Untracked(created_ports, ports_to_check[idx])
    /\ idx' = idx + 1
    /\ pc' = "losers"
    /\ UNCHANGED <<cfg, iteration, ports_to_check, shutdown_requested, elapsed,
                   port_id, found_ip, after, exitCode, nextId, createCalls,
                   detachCalled, attachFailed, matched, stopObserved, sent>>
    /\ UNCHANGED rvars

(***************************************************************************)
(* cleanup_all_ports, lines 274-283                                        *)
(***************************************************************************)
\* lines 278-279 and 283: detach the next tracked port, or clear the list
\* and go on where the caller goes on: run_iteration returns (False, None)
\* (lines 359, 369) or re-raises KeyboardInterrupt (line 364).
CleanupDetach ==
    /\ pc = "cleanup_detach"
    /\ IF idx <= Len(created_ports)
       THEN /\ DetachCall(created_ports[idx])
            /\ pc' = AfterDetach(lastCall'.result)
            /\ idx' = IF pc' = "cleanup_delete" THEN idx ELSE idx + 1
            /\ UNCHANGED <<created_ports, found_ip>>
       ELSE /\ created_ports' = ClearedPorts(created_ports)
            /\ pc' = IF after = "raise" THEN "interrupted" ELSE "after_iter"
            /\ found_ip' = NoAddr
            /\ UNCHANGED <<idx, cloud, detachCalled, protectedHit, failures, lastCall>>
    /\ UNCHANGED <<cfg, iteration, ports_to_check, shutdown_requested, elapsed,
                   port_id, after, exitCode, nextId, createCalls, deleteCalled,
                   attachFailed, matched, stopObserved, sent>>
    /\ UNCHANGED rvars

\* line 281: delete the port just detached.
CleanupDelete ==
    /\ pc = "cleanup_delete"
    /\ DeleteCall(created_ports[idx])
    /\ idx' = idx + 1
    /\ pc' = "cleanup_detach"
    /\ UNCHANGED <<cfg, iteration, created_ports, ports_to_check, shutdown_requested,
                   elapsed, port_id, found_ip, after, exitCode, nextId, createCalls,
                   detachCalled, attachFailed, matched, stopObserved, sent>>
    /\ UNCHANGED rvars

(***************************************************************************)
(* The manager                                                             *)
(***************************************************************************)
Step ==
    \/ EnterMain
    \/ InstallHandler
    \/ MainStart
    \/ LoopHead
    \/ Create
    \/ Attach
    \/ PollHead
    \/ Poll
    \/ Losers
    \/ LosersDelete
    \/ CleanupDetach
    \/ CleanupDelete
    \/ AfterIteration
    \/ Wait
    \/ Fail
    \/ Interrupted

Next ==
    \/ EnterMain
    \/ InstallHandler
    \/ DefaultInterrupt
    \/ MainStart
    \/ LoopHead
    \/ Create
    \/ Attach
    \/ PollHead
    \/ Poll
    \/ Losers
    \/ LosersDelete
    \/ CleanupDetach
    \/ CleanupDelete
    \/ AfterIteration
    \/ Wait
    \/ Fail
    \/ Interrupted
    \/ signal_handler

Spec == Init /\ [][Next]_vars

\* Every step of the process is eventually taken: the interpreter keeps
\* running, remote calls return (timeouts of 30 s) and sleeps end.
FairSpec == Init /\ [][Next]_vars /\ WF_vars(Step)

(***************************************************************************)
(* The reconciler, cleanup_ports.py                                        *)
(***************************************************************************)
\* The ids of a set, in increasing order.
RECURSIVE SortedIds(_)
SortedIds(S) ==
    IF S = {} THEN <<>>
    ELSE LET m == CHOOSE x \in S : \A y \in S : x <= y
         IN <<m>> \o SortedIds(S \ {m})

\* The answer to GET /ports: every port of the project.
ListPorts(c) ==
    LET ids == SortedIds(DOMAIN c)
    IN [k \in 1..Len(ids) |->
          [id |-> ids[k], device_id |-> c[ids[k]].device_id, ips |-> c[ids[k]].ips]]

\* cleanup lines 74-77: the port carries SAFE_IP.
IsProtected(port) == SAFE_IP \in Range(port.ips)

\* Faulty variant of lines 79-91: the device of the port is not looked at.
IsRemovedAnyDevice(port) == ~IsProtected(port)
\* cleanup lines 77-91: the listed port is handed to detach_and_delete.
IsRemoved(port) ==
    /\ ~IsProtected(port)
    /\ (port.device_id = NoDevice \/ port.device_id = VM_ID)

\* The states of the cloud the reconciler may find: up to MaxListed ports,
\* each unattached, attached to the VM or attached to another device, with
\* no address, an ordinary address, the protected one, or both.
PortStates ==
    [device_id : {NoDevice, VM_ID, OtherDevice},
     ips : {<<>>, <<OutAddr>>, <<SAFE_IP>>, <<OutAddr, SAFE_IP>>}]

InitCleanup ==
    /\ pc = "off"
    /\ cfg = [k \in Required |-> TRUE]
    /\ iteration = 0
    /\ created_ports = <<>>
    /\ ports_to_check = <<>>
    /\ shutdown_requested = FALSE
    /\ idx = 0
    /\ elapsed = 0
    /\ port_id = 0
    /\ found_ip = NoAddr
    /\ after = None
    /\ exitCode = -1
    /\ \E n \in 0..MaxListed : cloud \in [1..n -> PortStates]
    /\ nextId = 1
    /\ createCalls = 0
    /\ detachCalled = {}
    /\ deleteCalled = {}
    /\ protectedHit = FALSE
    /\ failures = 0
    /\ attachFailed = {}
    /\ matched = {}
    /\ stopObserved = FALSE
    /\ sent = {}
    /\ rpc = "start"
    /\ all_ports = <<>>
    /\ ridx = 0
    /\ deleted_count = 0
    /\ runs = 1
    /\ lastCall = NoCall
    /\ deleteCallsRun = 0
    /\ curFailed = FALSE
    /\ prevFailed = FALSE
    /\ cls = NoClassify

\* The variables of the manager, which the reconciler leaves alone.
mvars == <<pc, cfg, iteration, created_ports, ports_to_check, shutdown_requested,
           idx, elapsed, port_id, found_ip, after, exitCode, nextId, createCalls,
           attachFailed, matched, stopObserved, sent, cls>>

\* cleanup lines 61-69: list the ports; a failure ends the pass.
CleanupList ==
    /\ rpc = "start"
    /\ \E ok \in BOOLEAN :
        /\ Answer(ok)
        /\ curFailed' = (curFailed \/ ~ok)
        /\ IF ok
           THEN /\ all_ports' = ListPorts(cloud)
                /\ rpc' = "scan"
                /\ ridx' = 1
                /\ deleted_count' = 0
           ELSE /\ rpc' = "done"
                /\ UNCHANGED <<all_ports, ridx, deleted_count>>
    /\ UNCHANGED <<mvars, cloud, detachCalled, deleteCalled, protectedHit, runs,
                   lastCall, deleteCallsRun, prevFailed>>

\* cleanup lines 71-93: the next listed port is skipped or handed to
\* detach_and_delete; after the last one the pass ends.
CleanupScan ==
    /\ rpc = "scan"
    /\ IF ridx <= Len(all_ports)
       THEN IF IsRemoved(all_ports[ridx])
            THEN rpc' = "detach" /\ UNCHANGED ridx
            ELSE ridx' = ridx + 1 /\ UNCHANGED rpc
       ELSE rpc' = "done" /\ UNCHANGED ridx
    /\ UNCHANGED <<mvars, cloud, detachCalled, deleteCalled, protectedHit, failures,
                   all_ports, deleted_count, runs, lastCall, deleteCallsRun,
                   curFailed, prevFailed>>

\* detach_and_delete lines 43-47: the detach request.  Its answer is not
\* read: an HTTP error status ("not_found", "error") and an exception
\* ("exception") all leave the port as it is, and the function goes on.
CleanupDetachCall ==
    /\ rpc = "detach"
    /\ LET p == all_ports[ridx].id IN
        /\ detachCalled' = detachCalled \cup {p}
        /\ protectedHit' = (protectedHit \/ Carries(p, SAFE_IP))
        /\ \E answer \in DetachAnswers(cloud, p) \cup {"exception"} :
            /\ Answer(answer \in {"ok", "not_found"})
            /\ cloud' = IF answer = "ok" THEN CloudDetach(cloud, p) ELSE cloud
            /\ rpc' = AfterDetachCall(answer)
    /\ ridx' = IF rpc' = "delete" THEN ridx ELSE ridx + 1
    /\ UNCHANGED <<mvars, deleteCalled, all_ports, deleted_count, runs,
                   lastCall, deleteCallsRun, curFailed, prevFailed>>

\* detach_and_delete lines 49-56 and cleanup lines 82-91: the delete request.
\* The function returns CleanupReports(answer), which cleanup counts, and the
\* loop goes on.
CleanupDeleteCall ==
    /\ rpc = "delete"
    /\ LET p == all_ports[ridx].id IN
        /\ deleteCalled' = deleteCalled \cup {p}
        /\ deleteCallsRun' = deleteCallsRun + 1
        /\ protectedHit' = (protectedHit \/ Carries(p, SAFE_IP))
        /\ \E answer \in DeleteAnswers(cloud, p) \cup {"exception"} :
            /\ Answer(answer \in {"ok", "not_found"})
            /\ cloud' = IF answer = "ok" THEN CloudDelete(cloud, p) ELSE cloud
            /\ lastCall' = [op |-> "delete", answer |-> answer,
                            result |-> CleanupReports(answer)]
            /\ deleted_count' = deleted_count + (IF CleanupReports(answer) THEN 1 ELSE 0)
            /\ curFailed' = (curFailed \/ answer \in {"error", "exception"})
            /\ rpc' = AfterDeleteCall(answer)
    /\ ridx' = ridx + 1
    /\ UNCHANGED <<mvars, detachCalled, all_ports, runs, prevFailed>>

\* The operator runs the reconciler once more.
CleanupAgain ==
    /\ rpc = "done"
    /\ runs < MaxRuns
    /\ runs' = runs + 1
    /\ rpc' = "start"
    /\ deleteCallsRun' = 0
    /\ prevFailed' = curFailed
    /\ curFailed' = FALSE
    /\ UNCHANGED <<mvars, cloud, detachCalled, deleteCalled, protectedHit, failures,
                   all_ports, ridx, deleted_count, lastCall>>

NextCleanup ==
    \/ CleanupList
    \/ CleanupScan
    \/ CleanupDetachCall
    \/ CleanupDeleteCall
    \/ CleanupAgain

SpecCleanup == InitCleanup /\ [][NextCleanup]_vars

(***************************************************************************)
(* The address classifier on its own, lines 210-237                        *)
(***************************************************************************)
\* The inputs of a run of the classifier: the addresses made of the octets 0
\* and 255, the four configured boundaries with the addresses just below and
\* just above each, addresses that differ from a boundary in one higher
\* octet, and two malformed ones (three parts; a part above 255).
Octets == {0, 255}
TestAddrs ==
    {<<a, b, c, d>> : a \in Octets, b \in Octets, c \in Octets, d \in Octets}
    \cup {IP_RANGE_1_START, IP_RANGE_1_END, IP_RANGE_2_START, IP_RANGE_2_END}
    \cup {<<95, 163, 248, 9>>, <<95, 163, 248, 11>>,
          <<95, 163, 251, 249>>, <<95, 163, 251, 251>>,
          <<217, 16, 24, 0>>, <<217, 16, 24, 2>>,
          <<217, 16, 27, 252>>, <<217, 16, 27, 254>>}
    \cup {<<95, 163, 250, 0>>, <<95, 164, 248, 10>>, <<94, 163, 251, 250>>,
          <<217, 15, 27, 253>>, <<218, 16, 24, 1>>}
    \cup {<<10, 0, 0>>, <<95, 163, 248, 256>>}

InitClassify ==
    /\ pc = "off"
    /\ cfg = [k \in Required |-> TRUE]
    /\ iteration = 0
    /\ created_ports = <<>>
    /\ ports_to_check = <<>>
    /\ shutdown_requested = FALSE
    /\ idx = 0
    /\ elapsed = 0
    /\ port_id = 0
    /\ found_ip = NoAddr
    /\ after = None
    /\ exitCode = -1
    /\ cloud = [p \in {} |-> [device_id |-> NoDevice, ips |-> <<>>]]
    /\ nextId = 1
    /\ createCalls = 0
    /\ detachCalled = {}
    /\ deleteCalled = {}
    /\ protectedHit = FALSE
    /\ failures = 0
    /\ attachFailed = {}
    /\ matched = {}
    /\ stopObserved = FALSE
    /\ sent = {}
    /\ rpc = "off"
    /\ all_ports = <<>>
    /\ ridx = 0
    /\ deleted_count = 0
    /\ runs = 0
    /\ lastCall = NoCall
    /\ deleteCallsRun = 0
    /\ curFailed = FALSE
    /\ prevFailed = FALSE
    /\ cls \in [at : {"start"}, ip : TestAddrs, range_start : TestAddrs,
                range_end : TestAddrs, in_range : {FALSE}, match : {FALSE}]

\* check_ip_in_range(ip, range_start, range_end) and
\* is_ip_in_allowed_ranges(ip) are called and their results kept.
Classify ==
    /\ cls.at = "start"
    /\ cls' = [cls EXCEPT
                 !.at = "done",
                 !.in_range = check_ip_in_range(cls.ip, cls.range_start, cls.range_end),
                 !.match = is_ip_in_allowed_ranges(cls.ip)]
    /\ UNCHANGED <<pc, cfg, iteration, created_ports, ports_to_check,
                   shutdown_requested, idx, elapsed, port_id, found_ip, after,
                   exitCode, cloud, nextId, history, lastCall, rpc, all_ports, ridx,
                   deleted_count, runs, deleteCallsRun, curFailed, prevFailed>>

NextClassify == Classify

SpecClassify == InitClassify /\ [][NextClassify]_vars

(***************************************************************************)
(* The two programs that tear ports down: a run of the manager, or a run   *)
(* of the reconciler                                                       *)
(***************************************************************************)
InitTeardown == Init \/ InitCleanup

NextTeardown == Next \/ NextCleanup

SpecTeardown == InitTeardown /\ [][NextTeardown]_vars

(***************************************************************************)
(* Properties                                                              *)
(***************************************************************************)
\* The ids of the ports the run created.
Created == 1..(nextId - 1)

\* The ports teardown was issued on, and the ports retained.
TornDown(p) == p \in detachCalled /\ p \in deleteCalled
Retained(p) == p \in matched /\ p \notin detachCalled /\ p \notin deleteCalled

\* run_iteration has returned (pc = "after_iter") or raised (pc = "interrupted").
IterationEnded == pc \in {"after_iter", "interrupted"}

\* C1: when the process has exited, every port the run created is the
\* retained matching port or no longer exists in the cloud.
C1_NoLeak ==
    pc = "exit" => \A p \in Created : Retained(p) \/ p \notin DOMAIN cloud

\* C2: whenever run_iteration has returned or raised, every port created in
\* that iteration is either Matched (classified as the match, and no detach
\* or delete was ever issued on it) or Deleted (not the match, and a delete
\* call was issued on it).
C2_Resolved ==
    IterationEnded =>
        \A p \in Range(ports_to_check) :
            \/ Retained(p)
            \/ p \notin matched /\ p \in deleteCalled

C2_Witness ==
    /\ pc = "after_iter"
    /\ Len(ports_to_check) = NUM_PORTS
    /\ \E p \in Range(ports_to_check) : Retained(p)
    /\ \E p \in Range(ports_to_check) : p \notin matched /\ p \in deleteCalled

\* C3: a port whose address was classified as a match is never the target of
\* a detach or delete call.
C3_MatchUntouched ==
    \A p \in matched : p \notin detachCalled /\ p \notin deleteCalled

C3_Witness ==
    /\ pc = "exit"
    /\ matched # {}
    /\ \E p \in Created : p \notin matched /\ TornDown(p)

\* C4: when the process has exited, at most one port created by the run has
\* had no delete issued on it.
C4_AtMostOneRetained ==
    pc = "exit" => Cardinality({p \in Created : p \notin deleteCalled}) <= 1

\* A run that ended with a match although the last port of the batch held an
\* address of an allowed range as well.
C4_Witness ==
    /\ pc = "exit"
    /\ matched # {}
    /\ \E p \in DOMAIN cloud :
        /\ p \notin matched
        /\ p \in deleteCalled
        /\ cloud[p].ips # <<>>
        /\ is_ip_in_allowed_ranges(cloud[p].ips[1])

\* C5: no detach or delete call is ever issued on a port that carries the
\* protected address.
C5_ProtectedUntouched == ~protectedHit

\* C6: the process exits with code 0 only when a matching address was found
\* and its port retained, and with a non-zero code otherwise.
C6_ExitCode ==
    pc = "exit" => (exitCode = 0 <=> \E p \in Created : Retained(p))

\* C7: once the shutdown flag is set the process eventually exits, and at
\* exit every port created so far has had detach and delete issued on it
\* unless it is a matched port.
C7_Shutdown ==
    /\ shutdown_requested ~> (pc = "exit")
    /\ [](pc = "exit" /\ shutdown_requested =>
            \A p \in Created : p \in matched \/ TornDown(p))

C7_Witness ==
    /\ pc = "exit"
    /\ shutdown_requested
    /\ after = "raise"
    /\ Cardinality(Created) = NUM_PORTS
    /\ \A p \in Created : TornDown(p)

\* C8: once a match has been classified or a check has read the shutdown flag
\* as true, no createInterface call is issued and no iteration is started.
C8_SpawningStops ==
    [][stopObserved => (createCalls' = createCalls /\ iteration' = iteration)]_vars

C8_Witness ==
    /\ pc = "exit"
    /\ stopObserved
    /\ matched = {}
    /\ createCalls >= 1
    /\ iteration < MAX_RETRIES

\* C9: a port whose attach call failed is never classified as a match.
C9_AttachFailedNotMatched == \A p \in attachFailed : p \notin matched

\* C10: the number of ids tracked in created_ports is at most NUM_PORTS.
C10_Budget == Len(created_ports) <= NUM_PORTS

C10_Witness ==
    /\ iteration = MAX_RETRIES
    /\ Len(created_ports) = NUM_PORTS

\* An address of four octets, each in 0..255.
WellFormed(a) == Len(a) = 4 /\ \A k \in 1..4 : a[k] \in 0..255

\* a <= b for two addresses read as 32-bit unsigned values: they are equal,
\* or the first octet in which they differ is smaller in a.
AddrLeq(a, b) ==
    \/ a = b
    \/ \E k \in 1..4 : a[k] < b[k] /\ \A j \in 1..(k - 1) : a[j] = b[j]

\* a is a member of the range from s to e, both included.
Member(a, s, e) == AddrLeq(s, a) /\ AddrLeq(a, e)

\* C11: a well-formed address is a member of a well-formed range [S, E] as
\* check_ip_in_range answers exactly when S <= A <= E as 32-bit unsigned
\* values (so S and E are members when S <= E, and nothing is when S > E), and
\* it is classified as a match exactly when it is a member of one of the two
\* configured ranges.
C11_Classifier ==
    (cls.at = "done" /\ WellFormed(cls.ip)) =>
        /\ (WellFormed(cls.range_start) /\ WellFormed(cls.range_end)) =>
              (cls.in_range <=> Member(cls.ip, cls.range_start, cls.range_end))
        /\ cls.match <=> \/ Member(cls.ip, IP_RANGE_1_START, IP_RANGE_1_END)
                         \/ Member(cls.ip, IP_RANGE_2_START, IP_RANGE_2_END)

\* C11 witness: the end of the second configured range, classified against a
\* range of more than one address that ends in it: a member, and a match.
C11_Witness ==
    /\ cls.at = "done"
    /\ cls.ip = IP_RANGE_2_END
    /\ cls.range_end = cls.ip
    /\ cls.range_start = IP_RANGE_1_START
    /\ cls.in_range
    /\ cls.match

\* C12: a detach or delete call that the remote system answers with "not
\* found" is reported as a success by the client function, and one that it
\* answers with any other failure is reported as a failure.
C12_NotFoundIsSuccess ==
    lastCall.op \in {"detach", "delete"} =>
        /\ (lastCall.answer = "not_found" => lastCall.result)
        /\ (lastCall.answer \in {"error", "exception"} => ~lastCall.result)

\* A listed port the reconciler is to remove: it does not carry the protected
\* address, and it is unattached or attached to the configured VM.
Eligible(port) ==
    /\ SAFE_IP \notin Range(port.ips)
    /\ port.device_id \in {NoDevice, VM_ID}

\* C13: when a pass of the reconciler has ended, a delete call was issued on
\* every listed port that is eligible, and neither a detach nor a delete call
\* was issued on a listed port that is not (one that carries the protected
\* address, or is attached to another device); after the first pass the ports
\* a delete call was issued on are exactly the eligible ports of the listing.
C13_DeletesExactly ==
    rpc = "done" =>
        /\ \A k \in 1..Len(all_ports) :
              IF Eligible(all_ports[k])
              THEN all_ports[k].id \in deleteCalled
              ELSE all_ports[k].id \notin detachCalled \cup deleteCalled
        /\ runs = 1 =>
              deleteCalled = {all_ports[k].id : k \in {j \in 1..Len(all_ports) :
                                                         Eligible(all_ports[j])}}

\* C13 witness: a pass has ended over a listing of a port attached to another
\* device, which no call was issued on, and a port attached to the VM, which
\* was deleted.
C13_Witness ==
    /\ rpc = "done"
    /\ Len(all_ports) = 2
    /\ all_ports[1].device_id = OtherDevice
    /\ all_ports[1].id \notin detachCalled \cup deleteCalled
    /\ all_ports[2].device_id = VM_ID
    /\ all_ports[2].id \in deleteCalled
    /\ all_ports[2].id \notin DOMAIN cloud

\* C14: no detach or delete call of the reconciler ends the pass, whatever
\* its answer: from the scan, every eligible listed port is handed to the
\* detach call, the detach call is followed by the delete call on the same
\* port, the delete call is followed by the scan of the next listed port, and
\* the scan ends the pass only past the last listed port.
C14_PassGoesOn ==
    [][/\ (rpc = "scan" /\ ridx <= Len(all_ports) /\ Eligible(all_ports[ridx]))
             => (rpc' = "detach" /\ ridx' = ridx)
       /\ rpc = "detach"
             => (rpc' = "delete" /\ ridx' = ridx
                 /\ all_ports[ridx].id \in detachCalled')
       /\ rpc = "delete"
             => (rpc' = "scan" /\ ridx' = ridx + 1
                 /\ all_ports[ridx].id \in deleteCalled'
                 /\ deleteCallsRun' = deleteCallsRun + 1)
       /\ (rpc = "scan" /\ rpc' = "done") => ridx > Len(all_ports)]_vars

\* C14 witness: a first pass has ended over two eligible ports; the delete of
\* the first one failed (the port is still there), and the second one was
\* deleted all the same.
C14_Witness ==
    /\ rpc = "done"
    /\ runs = 1
    /\ Len(all_ports) = 2
    /\ Eligible(all_ports[1])
    /\ Eligible(all_ports[2])
    /\ curFailed
    /\ all_ports[1].id \in deleteCalled /\ all_ports[1].id \in DOMAIN cloud
    /\ all_ports[2].id \in deleteCalled /\ all_ports[2].id \notin DOMAIN cloud
    /\ deleteCallsRun = 2

\* C15: in a run of the reconciler that follows another one, no delete call
\* is issued.
C15_Idempotent == runs >= 2 => deleteCallsRun = 0

\* C16: a message is handed to the notifier only when a match was found, or
\* when all MAX_RETRIES iterations have run and none found a match.
C16_TerminalOnly ==
    /\ ("found" \in sent \/ "done" \in sent) => matched # {}
    /\ "exhausted" \in sent => (iteration = MAX_RETRIES /\ matched = {})

\* One of the four required settings (token, project, VM, external network)
\* is missing.
SettingMissing ==
    \/ ~cfg["VK_CLOUD_AUTH_TOKEN"]
    \/ ~cfg["VK_CLOUD_PROJECT_ID"]
    \/ ~cfg["VM_ID"]
    \/ ~cfg["EXTERNAL_NETWORK_ID"]

\* C17: when a required setting is missing, no remote call is ever made (no
\* create, attach, get, detach or delete call, no message to the notifier, no
\* iteration started), and the process exits with a code other than zero.
C17_ConfigGate ==
    SettingMissing =>
        /\ createCalls = 0
        /\ lastCall = NoCall
        /\ detachCalled = {} /\ deleteCalled = {}
        /\ sent = {}
        /\ iteration = 0
        /\ pc \in {"load", "main", "validate", "interrupted_early", "exit"}
        /\ pc = "exit" => exitCode # 0

\* The poll phase of an iteration: the loop of lines 325-354 is running.
PollPhase == pc \in {"poll_head", "poll"}

\* The longest round of polling: one call on each port and the sleep.
LongestRound == NUM_PORTS * MaxCallTime + CHECK_INTERVAL

\* C18 as stated: every run ends: the process reaches its exit whatever the
\* remote system answers (each call returns, time advances: FairSpec), no more
\* than MAX_RETRIES iterations are started, and the poll phase of an iteration
\* is over at the latest when the deadline IP_WAIT_TIMEOUT has elapsed.
C18_Terminates ==
    /\ <>(pc = "exit")
    /\ [](iteration <= MAX_RETRIES)
    /\ [](PollPhase => elapsed <= IP_WAIT_TIMEOUT)

\* C18: every run ends: the process reaches its exit whatever the remote
\* system answers (each call returns, time advances: FairSpec), no more than
\* MAX_RETRIES iterations are started, and no round of polling is started once
\* the deadline IP_WAIT_TIMEOUT has elapsed; the round in progress at the
\* deadline is completed, so the poll phase is over less than one round after
\* the deadline.
C18_TerminatesWithinRound ==
    /\ <>(pc = "exit")
    /\ [](iteration <= MAX_RETRIES)
    /\ [](pc = "poll" => elapsed < IP_WAIT_TIMEOUT)
    /\ [](PollPhase => elapsed < IP_WAIT_TIMEOUT + LongestRound)

\* C18 witness: the process has exited after MAX_RETRIES iterations, each of
\* which created a port, none of which found a match, with no shutdown
\* request.
C18_Witness ==
    /\ pc = "exit"
    /\ exitCode = 1
    /\ iteration = MAX_RETRIES
    /\ ~shutdown_requested
    /\ matched = {}
    /\ nextId > MAX_RETRIES
    /\ "exhausted" \in sent

\* C19: when the first create call is issued, one pass of the reconciler has
\* run, and it has ended.
C19_ReconciledFirst == createCalls > 0 => (runs = 1 /\ rpc = "done")

\* A create, attach or get call of this step failed.
FailedAttempt ==
    /\ pc \in {"create", "attach", "poll"}
    /\ failures' = failures + 1

\* The get call of this step succeeded on a port whose first address is a
\* member of one of the two configured ranges.
InRangeAnswer ==
    /\ pc = "poll"
    /\ idx <= Len(ports_to_check)
    /\ shutdown_requested' = shutdown_requested
    /\ lastCall' = [op |-> "get", answer |-> "ok", result |-> TRUE]
    /\ LET p == ports_to_check[idx] IN
          /\ p \in DOMAIN cloud'
          /\ cloud'[p].ips # <<>>
          /\ \/ Member(cloud'[p].ips[1], IP_RANGE_1_START, IP_RANGE_1_END)
             \/ Member(cloud'[p].ips[1], IP_RANGE_2_START, IP_RANGE_2_END)

\* C20: a create, attach or get call that fails leaves the iteration in the
\* loop it is in, which goes on with the next candidate; no detach or delete
\* call is issued and no port is dropped from the lists; and a port whose get
\* call then returns an address of the ranges is classified as the match,
\* whatever failed before.
C20_FailuresIsolated ==
    [][/\ FailedAttempt =>
             /\ pc' = pc
             /\ idx' = idx + 1
             /\ ports_to_check' = ports_to_check
             /\ created_ports' = created_ports
             /\ detachCalled' = detachCalled
             /\ deleteCalled' = deleteCalled
             /\ cloud' = cloud
       /\ InRangeAnswer =>
             /\ matched' = matched \cup {ports_to_check[idx]}
             /\ port_id' = ports_to_check[idx]
             /\ pc' = "losers"]_vars

\* C21: in every teardown, port by port: the detach call is issued first and
\* the delete call on the same port follows it whatever the detach answered;
\* after the delete call, whatever it answered, the teardown goes on with the
\* next port, and it ends only past the last port; no delete call is issued
\* on a port no detach call was issued on.  This holds for cleanup_all_ports,
\* for the removal of the other ports after a match, and for the reconciler.
C21_TeardownOrder ==
    [][shutdown_requested' = shutdown_requested =>
        /\ (pc = "cleanup_detach" /\ idx <= Len(created_ports))
              => (pc' = "cleanup_delete" /\ idx' = idx
                  /\ created_ports[idx] \in detachCalled')
        /\ pc = "cleanup_delete"
              => (pc' = "cleanup_detach" /\ idx' = idx + 1
                  /\ created_ports[idx] \in deleteCalled')
        /\ (pc = "cleanup_detach" /\ pc' \in {"after_iter", "interrupted"})
              => idx > Len(created_ports)
        /\ (pc = "losers" /\ idx <= Len(ports_to_check)
                /\ ports_to_check[idx] # port_id)
              => (pc' = "losers_delete" /\ idx' = idx
                  /\ ports_to_check[idx] \in detachCalled')
        /\ pc = "losers_delete"
              => (pc' = "losers" /\ idx' = idx + 1
                  /\ ports_to_check[idx] \in deleteCalled')
        /\ (pc = "losers" /\ pc' = "after_iter") => idx > Len(ports_to_check)
        /\ rpc = "detach"
              => (rpc' = "delete" /\ ridx' = ridx
                  /\ all_ports[ridx].id \in detachCalled')
        /\ rpc = "delete"
              => (rpc' = "scan" /\ ridx' = ridx + 1
                  /\ all_ports[ridx].id \in deleteCalled')
        /\ (deleteCalled' \ deleteCalled) \subseteq detachCalled]_vars

\* C21 witness: cleanup_all_ports has ended after a shutdown request; every
\* port of the iteration was created and attached, the delete of the first
\* port failed (the port is still there), and detach and delete were issued
\* on every port after it all the same.
C21_Witness ==
    /\ pc = "interrupted"
    /\ iteration = 1
    /\ createCalls = NUM_PORTS
    /\ nextId = NUM_PORTS + 1
    /\ attachFailed = {}
    /\ failures = 1
    /\ detachCalled = 1..NUM_PORTS
    /\ deleteCalled = 1..NUM_PORTS
    /\ 1 \in DOMAIN cloud
    /\ NUM_PORTS \notin DOMAIN cloud

\* run_iteration is running, and within it cleanup_all_ports.
InIteration ==
    pc \in {"create", "attach", "poll_head", "poll", "losers", "losers_delete",
            "cleanup_detach", "cleanup_delete"}
InCleanup == pc \in {"cleanup_detach", "cleanup_delete"}

\* created_ports holds each id of S once, and nothing else.
Tracks(S) == Range(created_ports) = S /\ Len(created_ports) = Cardinality(S)

\* What C22 says of created_ports outside an iteration: empty at the start
\* of an iteration and at its end without a match, the retained port alone
\* after a match.
TrackingAtEnds ==
    /\ (pc = "create" /\ idx = 0 /\ ports_to_check = <<>>) => created_ports = <<>>
    /\ (IterationEnded /\ found_ip = NoAddr) => created_ports = <<>>
    /\ (pc = "after_iter" /\ found_ip # NoAddr) =>
          (created_ports = <<port_id>> /\ Retained(port_id))

\* C22 as stated: with the above, at every point of an iteration created_ports
\* holds exactly the ids created in it on which no delete was issued yet.
C22_Tracking ==
    /\ TrackingAtEnds
    /\ InIteration => Tracks(Range(ports_to_check) \ deleteCalled)

\* C22 amended: with the above, at every point of an iteration outside
\* cleanup_all_ports created_ports holds exactly the ids created in it on
\* which no delete was issued yet; while cleanup_all_ports runs it holds every
\* id created in the iteration, those already deleted included, until the
\* list is cleared at its end.
C22_TrackingOutsideCleanup ==
    /\ TrackingAtEnds
    /\ (InIteration /\ ~InCleanup) => Tracks(Range(ports_to_check) \ deleteCalled)
    /\ InCleanup => Tracks(Range(ports_to_check))

\* C22 witness: run_iteration has returned a match; every port of the
\* iteration was created, delete was issued on the others, and created_ports
\* holds the retained port alone.
C22_Witness ==
    /\ pc = "after_iter"
    /\ found_ip # NoAddr
    /\ Len(ports_to_check) = NUM_PORTS
    /\ created_ports = <<port_id>>
    /\ Retained(port_id)
    /\ Range(ports_to_check) \ {port_id} \subseteq deleteCalled

====
